---- MODULE Spec2Model ----
(***************************************************************************)
(* tykhe-flask: seeded sample generation (app/data.py) and the disk-backed *)
(* data file cache with its 'creating-' signal files (app/__init__.py).    *)
(*                                                                         *)
(* Strings are sequences of tokens (a token is a piece of text that is     *)
(* never split: a word, a digit, "_", "."), so that the f-string that      *)
(* builds a filename and int() that parses a size are modelled by what     *)
(* they do.  Floating point draws are modelled by small integers.          *)
(***************************************************************************)
EXTENDS Integers, Sequences, FiniteSets, TLC

\* ------------------------------------------------------------------ bounds

\* number of get_data_file calls made during one run of the cache model
NumCalls == 2
\* number of worker processes (each has its own lru_cache)
NumProcs == 2
\* largest sample size and largest seed tried in the sampler model
MaxSize == 3
MaxSeed == 2
\* largest number of declared categories tried in the display format model
MaxCategories == 101

\* ------------------------------------------------------- program constants

\* @lru_cache(maxsize=300)
LruMaxsize == 300

\* ---------------------------------------------------------------- strings

Digits == {"0", "1", "2", "3", "4", "5", "6", "7", "8", "9"}

DigitValue(t) ==
    CASE t = "0" -> 0 [] t = "1" -> 1 [] t = "2" -> 2 [] t = "3" -> 3
      [] t = "4" -> 4 [] t = "5" -> 5 [] t = "6" -> 6 [] t = "7" -> 7
      [] t = "8" -> 8 [] t = "9" -> 9

\* int(s) accepts decimal digits with single underscores between digits
IntLiteralOk(s) ==
    /\ Len(s) > 0
    /\ \A i \in 1..Len(s) : s[i] \in Digits \cup {"_"}
    /\ s[1] \in Digits
    /\ s[Len(s)] \in Digits
    /\ \A i \in 1..(Len(s) - 1) : ~(s[i] = "_" /\ s[i + 1] = "_")

RECURSIVE IntValue(_, _)
IntValue(s, acc) ==
    IF s = << >> THEN acc
    ELSE IF Head(s) = "_" THEN IntValue(Tail(s), acc)
    ELSE IntValue(Tail(s), 10 * acc + DigitValue(Head(s)))

\* int(s): [ok |-> FALSE] stands for ValueError
ParseInt(s) ==
    IF IntLiteralOk(s) THEN [ok |-> TRUE, val |-> IntValue(s, 0)]
    ELSE [ok |-> FALSE, val |-> 0]

\* f'tykhe_{study}_{size}_{sid}.{format}'
Filename(study, size, format, sid) ==
    <<"tykhe", "_">> \o study \o <<"_">> \o size \o <<"_">> \o sid
        \o <<".">> \o format

\* 'creating-' + filename
SignalName(filename) == <<"creating-">> \o filename

\* --------------------------------------------------- random number generator

\* The generator is a state in 0..RngMod-1; every draw advances it once.
RngMod == 101

RngStep(s) == (7 * s + 3) % RngMod

\* faulty variant: the generator is created without the seed, from fresh entropy
\* (two of the states it may then start in)
UnseededRngStates(sid) == {0, 1}

\* np.random.default_rng(sid): the states a generator seeded with sid starts in
DefaultRngStates(sid) == {(13 * sid + 1) % RngMod}

\* rng.integers(n)
RngIntegers(s, n) == [val |-> RngStep(s) % n, rng |-> RngStep(s)]

\* rng.normal(): a standard normal draw, here one of -2..2
RngNormal(s) == [val |-> (RngStep(s) % 5) - 2, rng |-> RngStep(s)]

RECURSIVE ChoiceIndex(_, _, _)
ChoiceIndex(p, u, i) ==
    IF i >= Len(p) \/ u < p[i] THEN i - 1
    ELSE ChoiceIndex(p, u - p[i], i + 1)

\* rng.choice(len(p), p=p): p in percent, inverse CDF of one uniform draw
RngChoice(s, p) == [val |-> ChoiceIndex(p, RngStep(s) % 100, 1), rng |-> RngStep(s)]

\* rng.multivariate_normal(mu, Sigma) with four components
RngMultivariateNormal(s, mu) ==
    LET a == RngNormal(s)
        b == RngNormal(a.rng)
        c == RngNormal(b.rng)
        d == RngNormal(c.rng)
    IN  [val |-> <<mu[1] + a.val, mu[2] + b.val, mu[3] + c.val, mu[4] + d.val>>,
         rng |-> d.rng]

\* ----------------------------------------------------------------- studies

Levels == <<"levels">>
Simon == <<"simon">>
TwoSampleNull == <<"twosample", "_", "null">>
TwoSampleMedium == <<"twosample", "_", "medium">>

\* the keys of STUDIES
StudyKeys == {Levels, Simon, TwoSampleNull, TwoSampleMedium}

FloatType == [kind |-> "float"]
CategoricalDtype(categories, ordered) ==
    [kind |-> "category", categories |-> categories, ordered |-> ordered]

\* Levels.__init__
LevelsSex == <<"female", "male">>
LevelsHappiness == <<"very unhappy", "unhappy", "neutral", "happy", "very happy">>
LevelsColour ==
    <<"red", "orange", "yellow", "green", "blue", "purple", "black", "white",
      "grey", "brown">>
\* probabilities in percent, one row per sex
LevelsSexHappiness == <<  <<16, 17, 9, 23, 35>>, <<31, 26, 14, 18, 11>>  >>
LevelsSexColour ==
    <<  <<12, 7, 6, 17, 26, 17, 6, 4, 3, 2>>, <<14, 8, 5, 20, 29, 9, 8, 3, 3, 1>>  >>
\* round(exp(normal(mean, std))) per sex: the median height and the step of
\* one unit of the normal draw
LevelsSexLhm == <<  <<167, 9>>, <<175, 12>>  >>

\* Simon.__init__: the means estimated from the reference data
SimonMu == <<430, 460, 420, 450>>

\* TwoSample(d).d in half units of the normal draw: TwoSample(0), TwoSample(0.5)
TwoSampleD(study) == IF study = TwoSampleMedium THEN 1 ELSE 0
TwoSampleGroups == <<"A", "B">>

\* the `variables` property: names and data types in column order
VariableNames(study) ==
    CASE study = Levels -> <<"sex", "happiness", "colour", "height">>
      [] study = Simon ->
            <<"session1_congruent", "session1_incongruent",
              "session2_congruent", "session2_incongruent">>
      [] OTHER -> <<"group", "x">>

VariableTypes(study) ==
    CASE study = Levels ->
            <<CategoricalDtype(LevelsSex, FALSE),
              CategoricalDtype(LevelsHappiness, TRUE),
              CategoricalDtype(LevelsColour, FALSE), FloatType>>
      [] study = Simon -> <<FloatType, FloatType, FloatType, FloatType>>
      [] OTHER -> <<CategoricalDtype(TwoSampleGroups, FALSE), FloatType>>

\* Levels.get_observation
LevelsObservation(rng, index) ==
    LET si == RngIntegers(rng, Len(LevelsSex))
        hi == RngChoice(si.rng, LevelsSexHappiness[si.val + 1])
        ci == RngChoice(hi.rng, LevelsSexColour[si.val + 1])
        z  == RngNormal(ci.rng)
        height == LevelsSexLhm[si.val + 1][1] + LevelsSexLhm[si.val + 1][2] * z.val
    IN  [row |-> <<LevelsSex[si.val + 1], LevelsHappiness[hi.val + 1],
                   LevelsColour[ci.val + 1], height>>,
         rng |-> z.rng]

\* Simon.get_observation
SimonObservation(rng, index) ==
    LET x == RngMultivariateNormal(rng, SimonMu)
    IN  [row |-> x.val, rng |-> x.rng]

\* faulty variant: the group is drawn from the generator, not from the index
TwoSampleDrawnGroup(study, rng, index) ==
    LET g == RngIntegers(rng, 2)
        x == RngNormal(g.rng)
    IN  [row |-> <<TwoSampleGroups[g.val + 1],
                   IF g.val = 1 THEN 2 * x.val + TwoSampleD(study) ELSE 2 * x.val>>,
         rng |-> x.rng]

\* TwoSample.get_observation (x in half units)
TwoSampleObservation(study, rng, index) ==
    LET gi == index % 2
        x  == RngNormal(rng)
    IN  [row |-> <<TwoSampleGroups[gi + 1],
                   IF gi = 1 THEN 2 * x.val + TwoSampleD(study) ELSE 2 * x.val>>,
         rng |-> x.rng]

\* self.get_observation(rng, index), dispatched on the study
GetObservation(study, rng, index) ==
    CASE study = Levels -> LevelsObservation(rng, index)
      [] study = Simon -> SimonObservation(rng, index)
      [] OTHER -> TwoSampleObservation(study, rng, index)

\* ----------------------------------------------------------------- sampler

\* faulty variant: the indices are visited from the last to the first
ReversedRangeAt(size, k) == size - k

\* the index-th element of range(size)
RangeAt(size, k) == k - 1

\* len(range(size))
RangeLen(size) == IF size > 0 THEN size ELSE 0

\* one value under astype(dtype): a label outside the categories becomes NaN
AsType(value, dtype) ==
    IF dtype.kind = "category"
    THEN IF \E i \in 1..Len(dtype.categories) : dtype.categories[i] = value
         THEN value ELSE "NaN"
    ELSE value

\* pd.DataFrame.from_records(sample, columns=...).astype(variables)
DataFrame(study, sample) ==
    [columns |-> VariableNames(study),
     dtypes  |-> VariableTypes(study),
     rows    |-> [i \in 1..Len(sample) |->
                    [j \in 1..Len(VariableNames(study)) |->
                        AsType(sample[i][j], VariableTypes(study)[j])]]]

RECURSIVE SampleLoop(_, _, _, _, _)
SampleLoop(study, size, k, rng, sample) ==
    IF k > RangeLen(size) THEN sample
    ELSE LET o == GetObservation(study, rng, RangeAt(size, k))
         IN  SampleLoop(study, size, k + 1, o.rng, Append(sample, o.row))

\* Study.get_sample(size, rng)
GetSample(study, size, rng) == DataFrame(study, SampleLoop(study, size, 1, rng, << >>))

\* ------------------------------------------------------------ file formats

Csv == <<"csv">>
Sav == <<"sav">>
Dta == <<"dta">>
Xlsx == <<"xlsx">>
\* the format collect_sample fills in when the request names none
Dummy == <<"dummy">>

\* the keys of FORMATS
FORMATS == {Csv, Sav, Dta, Xlsx}

\* len(label)
StrLen(label) ==
    CASE label \in {"A", "B"} -> 1
      [] label \in {"red"} -> 3
      [] label \in {"male", "blue", "grey"} -> 4
      [] label \in {"green", "black", "white", "brown"} -> 5
      [] label \in {"female", "orange", "yellow", "purple"} -> 6
      [] OTHER -> 3

IsOrdinal(dtype) == dtype.kind = "category" /\ dtype.ordered
IsNominal(dtype) == dtype.kind = "category" /\ ~dtype.ordered

\* series.cat.codes of one value: its 0-based position in the categories
CatCode(value, dtype) ==
    IF \E i \in 1..Len(dtype.categories) : dtype.categories[i] = value
    THEN (CHOOSE i \in 1..Len(dtype.categories) : dtype.categories[i] = value) - 1
    ELSE -1

Cols(df) == 1..Len(df.columns)

\* the loop of df_to_csv and df_to_xlsx: every ordinal column is replaced, in
\* the data frame itself, by its integer codes
OrdinalsToCodes(df) ==
    [df EXCEPT
        !.dtypes = [j \in Cols(df) |->
                      IF IsOrdinal(df.dtypes[j]) THEN [kind |-> "int8"]
                      ELSE df.dtypes[j]],
        !.rows = [i \in 1..Len(df.rows) |->
                    [j \in Cols(df) |->
                        IF IsOrdinal(df.dtypes[j])
                        THEN CatCode(df.rows[i][j], df.dtypes[j])
                        ELSE df.rows[i][j]]]]

\* the data frame after df_to_csv or df_to_xlsx has prepared it; df.to_stata
\* is called on the data frame as it is
TablePrepared(format, df) == IF format = Dta THEN df ELSE OrdinalsToCodes(df)

\* the file df.to_csv, df.to_excel or df.to_stata leaves at pathname; a Stata
\* file records the type of every column as the data frame has it
TableFile(kind, df) ==
    [kind |-> kind, complete |-> TRUE, columns |-> df.columns,
     rows |-> df.rows,
     meta |-> IF kind = "dta" THEN [j \in Cols(df) |-> df.dtypes[j].kind] ELSE << >>]

\* faulty variant: the logarithm is rounded down
RECURSIVE FloorLog10(_)
FloorLog10(n) == IF n < 10 THEN 0 ELSE 1 + FloorLog10(n \div 10)

\* ceil(log10(n)) for n >= 1
RECURSIVE CeilLog10(_)
CeilLog10(n) == IF n <= 1 THEN 0 ELSE 1 + CeilLog10((n + 9) \div 10)

\* max(df[varName].apply(len)) over the rows; the caller checks for no rows
RECURSIVE MaxStrLen(_, _, _)
MaxStrLen(rows, j, i) ==
    IF i > Len(rows) THEN 0
    ELSE LET rest == MaxStrLen(rows, j, i + 1)
             here == StrLen(rows[i][j])
         IN  IF here > rest THEN here ELSE rest

\* df_to_sav raises ValueError: max() of an empty sequence, for a nominal
\* column of a data frame without rows
SavRaises(df) ==
    \E j \in Cols(df) : IsNominal(df.dtypes[j]) /\ Len(df.rows) = 0

\* the data frame after the loop of df_to_sav: ordinal columns hold their
\* codes, nominal columns are converted to str
SavPrepared(df) ==
    [df EXCEPT
        !.dtypes = [j \in Cols(df) |->
                      IF IsOrdinal(df.dtypes[j]) THEN [kind |-> "int8"]
                      ELSE IF IsNominal(df.dtypes[j]) THEN [kind |-> "str"]
                      ELSE df.dtypes[j]],
        !.rows = [i \in 1..Len(df.rows) |->
                    [j \in Cols(df) |->
                        IF IsOrdinal(df.dtypes[j])
                        THEN CatCode(df.rows[i][j], df.dtypes[j])
                        ELSE df.rows[i][j]]]]

\* f'F{ceil(log10(len(labels)))}.0'
SavFormat(labels) == <<"F", CeilLog10(Len(labels)), ".0">>

\* varTypes, measureLevels, formats and valueLabels of df_to_sav
SavMeta(df) ==
    [j \in Cols(df) |->
        IF df.dtypes[j].kind # "category"
        THEN [varType |-> 0, measureLevel |-> "scale", format |-> << >>, valueLabels |-> {}]
        ELSE IF df.dtypes[j].ordered
        THEN [varType |-> 0, measureLevel |-> "ordinal",
              format |-> SavFormat(df.dtypes[j].categories),
              valueLabels |->
                 {<<CatCode(df.rows[i][j], df.dtypes[j]), df.rows[i][j]>> :
                     i \in 1..Len(df.rows)}]
        ELSE [varType |-> MaxStrLen(df.rows, j, 1), measureLevel |-> "nominal",
              format |-> << >>, valueLabels |-> {}]]

\* the file right after savReaderWriter.SavWriter(...) has opened it
SavOpened(df) ==
    [kind |-> "sav", complete |-> FALSE, columns |-> df.columns,
     rows |-> << >>, meta |-> SavMeta(df)]

\* ------------------------------------------------- the cache model: state

Calls == 1..NumCalls
Procs == 1..NumProcs

NoSuch == <<"nosuch">>

Rq(study, size, format, sid) ==
    [study |-> study, size |-> size, format |-> format, sid |-> sid]

\* the requests (study, size, format, sid as the URL gives them) tried
Requests ==
    {Rq(Levels, <<"1">>, Csv, <<"5">>),
     Rq(Levels, <<"1">>, Sav, <<"5">>),
     Rq(Levels, <<"1">>, Dummy, <<"5">>),
     Rq(NoSuch, <<"1">>, Csv, <<"5">>),
     Rq(Levels, <<"0">>, Sav, <<"5">>),
     Rq(Levels, <<"x">>, Csv, <<"5">>)}

NoRequest == [study |-> << >>, size |-> << >>, format |-> << >>, sid |-> << >>]

FilenameOf(r) == Filename(r.study, r.size, r.format, r.sid)

DataNames == {FilenameOf(r) : r \in Requests}
SignalNames == {SignalName(f) : f \in DataNames}

NoFile == [kind |-> "none", complete |-> FALSE]
\* the empty file open(signalpath, 'x') creates
EmptyFile == [kind |-> "empty", complete |-> TRUE]

NoDf == [columns |-> << >>, dtypes |-> << >>, rows |-> << >>]

VARIABLES
    cache,      \* the cache directory: file name -> file, NoFile when absent
    pc,         \* call -> where its get_data_file is
    tpc,        \* call -> where the create_data_file thread it started is
    req,        \* call -> the request (study, size, format, sid)
    pathname,   \* call -> the name of its data file in the cache directory
    signalpath, \* call -> the name of its signal file in the cache directory
    wait,       \* call -> the wait argument
    proc,       \* call -> the worker process that runs it
    steps,      \* call -> statements of get_data_file executed, sleeps aside
    onPresent,  \* call -> the entry was present when the call was made (ghost)
    args,       \* call -> (size, sid) as passed to create_data_file
    heap,       \* call -> the data frame its thread's get_sample returned
    dfref,      \* call -> the data frame `df` of its thread refers to (a call)
    memo,       \* process -> the lru_cache of get_study_sample, oldest first
    run,        \* the sampler model: run -> state of one get_study_sample
    width,      \* the display format model: one ordinal column of df_to_sav
    naming      \* the file name model: two requests and the names they get

\* what Call sets and nothing changes afterwards
callInputs == <<req, pathname, signalpath, wait, proc, onPresent>>

cacheVars ==
    <<cache, pc, tpc, req, pathname, signalpath, wait, proc, steps, onPresent,
      args, heap, dfref, memo>>
vars == <<cacheVars, run, width, naming>>

\* path.isfile(name)
IsFile(name) == name \in DOMAIN cache /\ cache[name] # NoFile

\* the key of the lru_cache entry: (study, size, sid)
SampleKey(c) == <<req[c].study, args[c].size, args[c].sid>>

InMemo(p, key) == \E i \in 1..Len(memo[p]) : memo[p][i].key = key
MemoIndex(p, key) == CHOOSE i \in 1..Len(memo[p]) : memo[p][i].key = key

\* a cache hit moves the entry to the most recently used end
MemoTouch(m, i) ==
    SubSeq(m, 1, i - 1) \o SubSeq(m, i + 1, Len(m)) \o <<m[i]>>

\* a new entry evicts the least recently used one when the cache is full
MemoInsert(m, key, obj) ==
    LET e == [key |-> key, obj |-> obj]
    IN  IF Len(m) >= LruMaxsize THEN Tail(m) \o <<e>> ELSE m \o <<e>>

\* the runs of the sampler model, and a run that has not been set up
Runs == {1, 2}
\* no request is being named
NoNaming == [pc |-> <<"off", "off">>, req |-> <<NoRequest, NoRequest>>,
             filename |-> << << >>, << >> >>, signalpath |-> << << >>, << >> >>,
             pathname |-> << << >>, << >> >>, args |-> << << >>, << >> >>]
\* no column is being formatted
NoWidth == [pc |-> "off", labels |-> << >>, format |-> << >>]
NoRun ==
    [pc |-> "off", study |-> << >>, size |-> 0, sid |-> 0, rng |-> 0, k |-> 0,
     indices |-> << >>, sample |-> << >>, df |-> NoDf]

\* the entry of a file name is present: complete data file, no signal file
EntryPresent(filename) ==
    /\ IsFile(filename)
    /\ cache[filename].complete
    /\ ~IsFile(SignalName(filename))

\* the entry of a file name is present for a call made now: it is present, or
\* it was present for an earlier call that holds the signal file for the time
\* of its look at the data file
PresentAtCall(filename) ==
    \/ EntryPresent(filename)
    \/ /\ IsFile(filename)
       /\ cache[filename].complete
       /\ \E d \in Calls :
             /\ pathname[d] = filename
             /\ onPresent[d]
             /\ pc[d] \in {"check", "unlink"}

\* the cache directory without files
EmptyCache == [n \in DataNames \cup SignalNames |-> NoFile]

\* no call has been made, no thread started, nothing memoized
IdleCalls ==
    /\ pc = [c \in Calls |-> "idle"]
    /\ tpc = [c \in Calls |-> "none"]
    /\ req = [c \in Calls |-> NoRequest]
    /\ pathname = [c \in Calls |-> << >>]
    /\ signalpath = [c \in Calls |-> << >>]
    /\ wait = [c \in Calls |-> FALSE]
    /\ proc = [c \in Calls |-> 0]
    /\ steps = [c \in Calls |-> 0]
    /\ onPresent = [c \in Calls |-> FALSE]
    /\ args = [c \in Calls |-> [size |-> 0, sid |-> 0]]
    /\ heap = [c \in Calls |-> NoDf]
    /\ dfref = [c \in Calls |-> 0]
    /\ memo = [p \in Procs |-> << >>]

\* the cache directory is created empty when the application starts
Init ==
    /\ cache = EmptyCache
    /\ IdleCalls
    /\ run = [r \in Runs |-> NoRun]
    /\ width = NoWidth
    /\ naming = NoNaming

\* --------------------------------------------- the cache model: get_data_file

\* the processes a new call may run in: one already in use, or the next one
ProcsInUse == {proc[c] : c \in Calls} \ {0}
ProcChoices == {p \in Procs : p = 1 \/ (p - 1) \in ProcsInUse}

\* faulty variant: the signal file is opened with 'w', which never raises
OpenForWriting(name) == FALSE

\* open(signalpath, 'x') raises FileExistsError
ExclusiveCreateFails(name) == IsFile(name)

\* faulty variant: the handler of FileExistsError cleans up the signal file
UnlinkAfterFileExistsError(w) == "unlink"

\* except FileExistsError: `if wait:` enters the polling loop
AfterFileExistsError(w) == IF w THEN "poll" ELSE "ret"

\* A request arrives (download: wait=True, collect_sample: wait=False) in some
\* worker process; get_data_file builds filename, signalpath and pathname and
\* executes `with open(signalpath, 'x'): pass`.  Calls are numbered in the
\* order of these statements.
Call(c) ==
    /\ pc[c] = "idle"
    /\ \A d \in Calls : d < c => pc[d] # "idle"
    /\ \E r \in Requests, w \in BOOLEAN, p \in ProcChoices :
          /\ req' = [req EXCEPT ![c] = r]
          /\ pathname' = [pathname EXCEPT ![c] = FilenameOf(r)]
          /\ signalpath' = [signalpath EXCEPT ![c] = SignalName(FilenameOf(r))]
          /\ wait' = [wait EXCEPT ![c] = w]
          /\ proc' = [proc EXCEPT ![c] = p]
          /\ onPresent' = [onPresent EXCEPT ![c] = PresentAtCall(FilenameOf(r))]
          /\ \/ /\ ~ExclusiveCreateFails(SignalName(FilenameOf(r)))
                /\ cache' = [cache EXCEPT ![SignalName(FilenameOf(r))] = EmptyFile]
                /\ pc' = [pc EXCEPT ![c] = "check"]
             \/ /\ ExclusiveCreateFails(SignalName(FilenameOf(r)))
                /\ pc' = [pc EXCEPT ![c] = AfterFileExistsError(w)]
                /\ UNCHANGED cache
    /\ steps' = [steps EXCEPT ![c] = @ + 1]
    /\ UNCHANGED <<tpc, args, heap, dfref, memo, run, width, naming>>

\* faulty variant: the holder of the signal file does not look for the data file
DataFileNotLookedFor(c) == FALSE

\* path.isfile(pathname), evaluated by the holder of the signal file
DataFileExists(c) == IsFile(pathname[c])

\* if path.isfile(pathname): ... else: ...
CheckExists(c) ==
    /\ pc[c] = "check"
    /\ steps' = [steps EXCEPT ![c] = @ + 1]
    /\ pc' = [pc EXCEPT ![c] = IF DataFileExists(c) THEN "unlink" ELSE "start"]
    /\ UNCHANGED <<cache, tpc, callInputs, args, heap, dfref, memo, run, width, naming>>

\* <exists>: unlink(signalpath); return filename
UnlinkSignal(c) ==
    /\ pc[c] = "unlink"
    /\ steps' = [steps EXCEPT ![c] = @ + 1]
    /\ cache' = [cache EXCEPT ![signalpath[c]] = NoFile]
    /\ pc' = [pc EXCEPT ![c] = "ret"]
    /\ UNCHANGED <<tpc, callInputs, args, heap, dfref, memo, run, width, naming>>

\* faulty variant: the thread is joined whatever `wait` is
JoinAlways(w) == "join"

\* after thread.start(): `if wait: thread.join()`, then return filename
AfterThreadStart(w) == IF w THEN "join" ELSE "ret"

\* <nothing>: args = (study, int(size), format, int(sid), ...), which raises
\* ValueError for a size or sid that is no integer; Thread(...).start()
StartThread(c) ==
    /\ pc[c] = "start"
    /\ steps' = [steps EXCEPT ![c] = @ + 1]
    /\ \/ /\ ParseInt(req[c].size).ok /\ ParseInt(req[c].sid).ok
          /\ args' = [args EXCEPT ![c] = [size |-> ParseInt(req[c].size).val,
                                          sid |-> ParseInt(req[c].sid).val]]
          /\ tpc' = [tpc EXCEPT ![c] = "lookup"]
          /\ pc' = [pc EXCEPT ![c] = AfterThreadStart(wait[c])]
       \/ /\ ~(ParseInt(req[c].size).ok /\ ParseInt(req[c].sid).ok)
          /\ pc' = [pc EXCEPT ![c] = "raised"]
          /\ UNCHANGED <<args, tpc>>
    /\ UNCHANGED <<cache, callInputs, heap, dfref, memo, run, width, naming>>

\* the create_data_file thread of call c has ended, normally or by an exception
ThreadEnded(c) == tpc[c] \in {"done", "crashed"}

\* thread.join() returns; return filename
Join(c) ==
    /\ pc[c] = "join"
    /\ ThreadEnded(c)
    /\ steps' = [steps EXCEPT ![c] = @ + 1]
    /\ pc' = [pc EXCEPT ![c] = "ret"]
    /\ UNCHANGED <<cache, tpc, callInputs, args, heap, dfref, memo, run, width, naming>>

\* while path.isfile(signalpath): sleep(0.1)
PollSleep(c) ==
    /\ pc[c] = "poll"
    /\ IsFile(signalpath[c])
    /\ UNCHANGED vars

\* the loop ends: return filename
PollExit(c) ==
    /\ pc[c] = "poll"
    /\ ~IsFile(signalpath[c])
    /\ steps' = [steps EXCEPT ![c] = @ + 1]
    /\ pc' = [pc EXCEPT ![c] = "ret"]
    /\ UNCHANGED <<cache, tpc, callInputs, args, heap, dfref, memo, run, width, naming>>

\* ------------------------------------------ the cache model: create_data_file

\* get_study_sample(study, size, sid): the lookup of lru_cache.  A hit returns
\* the cached data frame itself; a miss goes on to call the function.
Lookup(c) ==
    /\ tpc[c] = "lookup"
    /\ IF InMemo(proc[c], SampleKey(c))
       THEN LET i == MemoIndex(proc[c], SampleKey(c))
            IN  /\ dfref' = [dfref EXCEPT ![c] = memo[proc[c]][i].obj]
                /\ memo' = [memo EXCEPT ![proc[c]] = MemoTouch(@, i)]
                /\ tpc' = [tpc EXCEPT ![c] = "write"]
       ELSE /\ tpc' = [tpc EXCEPT ![c] = "compute"]
            /\ UNCHANGED <<dfref, memo>>
    /\ UNCHANGED <<cache, pc, callInputs, steps, args, heap, run, width, naming>>

\* the body of get_study_sample: rng = default_rng(sid);
\* STUDIES[study].get_sample(size, rng), KeyError for an unknown study.  The
\* result is cached unless another thread has cached the key meanwhile.
Compute(c) ==
    /\ tpc[c] = "compute"
    /\ \/ /\ req[c].study \in StudyKeys
          /\ \E s \in DefaultRngStates(args[c].sid) :
                heap' = [heap EXCEPT ![c] = GetSample(req[c].study, args[c].size, s)]
          /\ dfref' = [dfref EXCEPT ![c] = c]
          /\ memo' = IF InMemo(proc[c], SampleKey(c)) THEN memo
                     ELSE [memo EXCEPT ![proc[c]] = MemoInsert(@, SampleKey(c), c)]
          /\ tpc' = [tpc EXCEPT ![c] = "write"]
       \/ /\ req[c].study \notin StudyKeys
          /\ tpc' = [tpc EXCEPT ![c] = "crashed"]
          /\ UNCHANGED <<heap, dfref, memo>>
    /\ UNCHANGED <<cache, pc, callInputs, steps, args, run, width, naming>>

\* the data frame `df` of the thread of call c
Df(c) == heap[dfref[c]]

\* the `if format == ...` statements of create_data_file: df_to_csv,
\* df_to_xlsx, df.to_stata, or the loop of df_to_sav and the opening of the
\* SavWriter; any other format writes nothing
Write(c) ==
    /\ tpc[c] = "write"
    /\ \/ /\ req[c].format \in {Csv, Xlsx, Dta}
          /\ heap' = [heap EXCEPT ![dfref[c]] = TablePrepared(req[c].format, Df(c))]
          /\ cache' = [cache EXCEPT ![pathname[c]] =
                          TableFile(req[c].format[1],
                                    TablePrepared(req[c].format, Df(c)))]
          /\ tpc' = [tpc EXCEPT ![c] = "unlink"]
       \/ /\ req[c].format = Sav
          /\ IF SavRaises(Df(c))
             THEN /\ tpc' = [tpc EXCEPT ![c] = "crashed"]
                  /\ UNCHANGED <<heap, cache>>
             ELSE /\ heap' = [heap EXCEPT ![dfref[c]] = SavPrepared(Df(c))]
                  /\ cache' = [cache EXCEPT ![pathname[c]] = SavOpened(Df(c))]
                  /\ tpc' = [tpc EXCEPT ![c] = "savrow"]
       \/ /\ req[c].format \notin FORMATS
          /\ tpc' = [tpc EXCEPT ![c] = "unlink"]
          /\ UNCHANGED <<heap, cache>>
    /\ UNCHANGED <<pc, callInputs, steps, args, dfref, memo, run, width, naming>>

\* for _, row in df.iterrows(): writer.writerow(...), one row a step; after the
\* last row the `with` block closes the file
SavRow(c) ==
    /\ tpc[c] = "savrow"
    /\ LET f == cache[pathname[c]]
           k == Len(f.rows)
       IN  IF k < Len(Df(c).rows)
           THEN /\ cache' = [cache EXCEPT ![pathname[c]].rows =
                                Append(@, Df(c).rows[k + 1])]
                /\ UNCHANGED tpc
           ELSE /\ cache' = [cache EXCEPT ![pathname[c]].complete = TRUE]
                /\ tpc' = [tpc EXCEPT ![c] = "unlink"]
    /\ UNCHANGED <<pc, callInputs, steps, args, heap, dfref, memo, run, width, naming>>

\* signal <exists>: unlink(signalname)
ThreadUnlink(c) ==
    /\ tpc[c] = "unlink"
    /\ cache' = [cache EXCEPT ![signalpath[c]] = NoFile]
    /\ tpc' = [tpc EXCEPT ![c] = "done"]
    /\ UNCHANGED <<pc, callInputs, steps, args, heap, dfref, memo, run, width, naming>>

\* one step of the get_data_file call c
GetDataFileStep(c) ==
    \/ CheckExists(c)
    \/ UnlinkSignal(c)
    \/ StartThread(c)
    \/ Join(c)
    \/ PollSleep(c)
    \/ PollExit(c)

\* one step of the create_data_file thread of call c
CreateDataFileStep(c) ==
    \/ Lookup(c)
    \/ Compute(c)
    \/ Write(c)
    \/ SavRow(c)
    \/ ThreadUnlink(c)

Next == \E c \in Calls : Call(c) \/ GetDataFileStep(c) \/ CreateDataFileStep(c)

Spec == Init /\ [][Next]_vars

\* fair scheduling of every get_data_file call and every thread
FairSpec ==
    /\ Spec
    /\ \A c \in Calls :
          WF_vars(GetDataFileStep(c)) /\ WF_vars(CreateDataFileStep(c))

\* The worker processes have been restarted (the cache directory, named after
\* the parent process, stays) after one request was served: its entry is
\* present, as create_data_file left it, and no call is under way.
PresentRequest == Rq(Levels, <<"1">>, Csv, <<"5">>)

InitPresent ==
    /\ \E s \in DefaultRngStates(ParseInt(PresentRequest.sid).val) :
          cache = [EmptyCache EXCEPT ![FilenameOf(PresentRequest)] =
                      TableFile(PresentRequest.format[1],
                                TablePrepared(PresentRequest.format,
                                    GetSample(PresentRequest.study,
                                              ParseInt(PresentRequest.size).val, s)))]
    /\ IdleCalls
    /\ run = [r \in Runs |-> NoRun]
    /\ width = NoWidth
    /\ naming = NoNaming

SpecPresent == InitPresent /\ [][Next]_vars

\* ------------------------------------------------ the cache model: claims

\* call c has been made
Made(c) == pc[c] # "idle"

\* calls c and d have been made for the same file name
SameFile(c, d) == Made(c) /\ Made(d) /\ pathname[c] = pathname[d]

\* create_data_file has been executed (started) on behalf of call c
Created(c) == tpc[c] # "none"

\* the format the file name of call c ends in
FormatOfName(c) == <<pathname[c][Len(pathname[c])]>>

\* call c holds its signal file: it has created it, and neither it nor its
\* thread has removed it or died
Owns(c) ==
    \/ pc[c] \in {"check", "unlink", "start"}
    \/ tpc[c] \in {"lookup", "compute", "write", "savrow", "unlink"}

\* C1 as stated: for every key, create_data_file is executed at most once,
\* and it has been executed when a wait=True caller of the key has returned.
C1_AtMostOnceAnyKey ==
    /\ \A c, d \in Calls :
          (c # d /\ SameFile(c, d)) => ~(Created(c) /\ Created(d))
    /\ \A c \in Calls :
          (wait[c] /\ pc[c] = "ret")
              => \E d \in Calls : SameFile(c, d) /\ Created(d)

\* C1 for the formats create_data_file writes a file for: for every file name
\* whose format is one of FORMATS, create_data_file is executed at most once,
\* and it has been executed (exactly once, then) when a wait=True caller of
\* that file name has returned.
C1_AtMostOnceDeclaredFormat ==
    /\ \A c, d \in Calls :
          (c # d /\ SameFile(c, d) /\ FormatOfName(c) \in FORMATS)
              => ~(Created(c) /\ Created(d))
    /\ \A c \in Calls :
          (wait[c] /\ pc[c] = "ret" /\ FormatOfName(c) \in FORMATS)
              => \E d \in Calls : SameFile(c, d) /\ Created(d)

\* two concurrent wait=True callers of one file have both returned, the
\* second after polling, and create_data_file ran for the first only
C1_Witness ==
    \E c, d \in Calls :
        /\ c # d /\ SameFile(c, d)
        /\ pc[c] = "ret" /\ pc[d] = "ret" /\ wait[c] /\ wait[d]
        /\ FormatOfName(c) \in FORMATS
        /\ tpc[c] = "done" /\ ~Created(d) /\ ~onPresent[d] /\ steps[d] = 2

\* C2: at most one call (with its thread) holds the signal file of a file
\* name at any time, and while one does the signal file exists.
C2_OneOwner ==
    /\ \A c, d \in Calls :
          (c # d /\ SameFile(c, d)) => ~(Owns(c) /\ Owns(d))
    /\ \A c \in Calls : Owns(c) => IsFile(signalpath[c])

\* one call holds the signal file while another call for the same file has
\* lost the exclusive creation and polls
C2_Witness ==
    \E c, d \in Calls :
        c # d /\ SameFile(c, d) /\ Owns(c) /\ pc[d] = "poll"

\* C3: a wait=True call that has returned finds its data file in the cache
\* directory, complete.
C3_WaitReturnsCompleteFile ==
    \A c \in Calls :
        (wait[c] /\ pc[c] = "ret") =>
            IsFile(pathname[c]) /\ cache[pathname[c]].complete

\* C4: the data file at its final path name is absent or completely written.
C4_NoTornFile ==
    \A f \in DataNames : IsFile(f) => cache[f].complete

\* C5: a wait=False call is never at the join or in the polling loop, always
\* has a next statement it can execute until it has ended, and ends within
\* three statements (open, isfile, then unlink or thread start).
C5_NoWaitNeverBlocks ==
    \A c \in Calls :
        (Made(c) /\ ~wait[c]) =>
            /\ pc[c] \notin {"join", "poll"}
            /\ steps[c] <= 3
            /\ pc[c] \notin {"ret", "raised"} => ENABLED GetDataFileStep(c)

\* a wait=False call has returned while the thread it started still runs,
\* and another wait=False call has returned while that signal file is held
C5_Witness ==
    \E c, d \in Calls :
        /\ c # d /\ SameFile(c, d)
        /\ ~wait[c] /\ ~wait[d] /\ pc[c] = "ret" /\ pc[d] = "ret"
        /\ tpc[c] \in {"lookup", "compute", "write", "savrow"} /\ ~Created(d)

\* C6: under fair scheduling, a started materialization of a file in one of
\* FORMATS leads to the entry being present, and every wait=True call for a
\* file whose materialization has been started ends.
C6_StartedCompletes ==
    /\ \A c \in Calls :
          (tpc[c] = "lookup" /\ req[c].format \in FORMATS)
              ~> EntryPresent(pathname[c])
    /\ \A c \in Calls :
          (Made(c) /\ wait[c] /\ \E d \in Calls : SameFile(c, d) /\ Created(d))
              ~> (pc[c] \in {"ret", "raised"})

\* C7: a call made when the entry is present (or while another such call
\* holds the signal file) starts no thread, runs no sampler and raises
\* nothing, the data file stays as it is, and a signal file exists only while
\* such a call holds it and is about to remove it.
C7_IdempotentRerequest ==
    \A c \in Calls :
        onPresent[c] =>
            /\ ~Created(c) /\ heap[c] = NoDf /\ dfref[c] = 0
            /\ pc[c] \in {"check", "unlink", "poll", "ret"}
            /\ IsFile(pathname[c]) /\ cache[pathname[c]].complete
            /\ IsFile(signalpath[c]) =>
                  \E d \in Calls :
                      /\ SameFile(c, d) /\ onPresent[d]
                      /\ pc[d] \in {"check", "unlink"}

\* two calls made when the entry was present have returned: one won the
\* signal file, looked at the data file and removed the signal file, the
\* other, made meanwhile with wait=True, polled; the entry is present
C7_Witness ==
    \E c, d \in Calls :
        /\ c # d /\ SameFile(c, d)
        /\ onPresent[c] /\ pc[c] = "ret" /\ steps[c] = 3
        /\ onPresent[d] /\ pc[d] = "ret" /\ steps[d] = 2 /\ wait[d]
        /\ EntryPresent(pathname[c])

\* C8: once a call for an unknown study and the thread it started have
\* ended, and no other call holds the signal file, neither a data file nor a
\* signal file exists for its file name.
C8_UnknownStudyLeavesNothing ==
    \A c \in Calls :
        (/\ pc[c] \in {"ret", "raised"}
         /\ req[c].study \notin StudyKeys
         /\ tpc[c] \in {"none", "done", "crashed"}
         /\ \A d \in Calls : SameFile(c, d) => ~Owns(d))
            => ~IsFile(pathname[c]) /\ ~IsFile(signalpath[c])

\* the data frame get_study_sample computes for the key of call c
FreshSample(c) ==
    GetSample(req[c].study, ParseInt(req[c].size).val,
              CHOOSE s \in DefaultRngStates(ParseInt(req[c].sid).val) : TRUE)

\* the data file of call c has been written completely, for a declared study
Written(c) ==
    /\ Made(c) /\ req[c].study \in StudyKeys /\ req[c].format \in FORMATS
    /\ IsFile(pathname[c]) /\ cache[pathname[c]].complete

\* the value-label table of the declared categories: code -> label
FullValueLabels(dtype) ==
    {<<k - 1, dtype.categories[k]>> : k \in 1..Len(dtype.categories)}

\* C12: in a csv, xlsx or sav file every value of an ordinal column is the
\* 0-based rank of the sampled value in the declared categories, and in a sav
\* file the value labels of the column map every code of the declared
\* categories to its label.
C12_OrdinalEncoding ==
    \A c \in Calls :
        (Written(c) /\ req[c].format \in {Csv, Xlsx, Sav}) =>
            LET f == cache[pathname[c]]
                types == VariableTypes(req[c].study)
            IN  \A j \in 1..Len(types) :
                    IsOrdinal(types[j]) =>
                        /\ \A i \in 1..Len(f.rows) :
                              f.rows[i][j] = CatCode(FreshSample(c).rows[i][j], types[j])
                        /\ req[c].format = Sav =>
                              f.meta[j].valueLabels = FullValueLabels(types[j])

\* the file create_data_file writes for the key of call c from the data frame
\* the Sampler produces
ExpectedFile(c) ==
    IF req[c].format = Sav
    THEN [SavOpened(FreshSample(c)) EXCEPT
             !.rows = SavPrepared(FreshSample(c)).rows, !.complete = TRUE]
    ELSE TableFile(req[c].format[1], TablePrepared(req[c].format, FreshSample(c)))

\* two files have the same bytes: the same kind, columns, column types and
\* labels, and then the same values in the same order
SameBytes(f, g) ==
    /\ f.kind = g.kind
    /\ f.columns = g.columns
    /\ f.kind = "sav" =>
          [j \in DOMAIN f.meta |-> f.meta[j].measureLevel]
              = [j \in DOMAIN g.meta |-> g.meta[j].measureLevel]
    /\ f.meta = g.meta
    /\ f.rows = g.rows

\* C14: every completely written data file has the bytes its key alone
\* determines (those written from the data frame the Sampler produces), and
\* a data frame returned by a hit of the memoization cache has the column
\* types the Sampler gave it.
C14_BytesDependOnKeyOnly ==
    /\ \A c \in Calls :
          Written(c) => SameBytes(cache[pathname[c]], ExpectedFile(c))
    /\ \A c \in Calls :
          (tpc[c] = "write" /\ dfref[c] # c) =>
              [j \in Cols(Df(c)) |-> Df(c).dtypes[j].kind]
                  = [j \in Cols(Df(c)) |-> VariableTypes(req[c].study)[j].kind]

\* C15: under fair scheduling, after the create_data_file thread of a call has
\* ended by an exception its signal file is eventually absent, and a call
\* polling for that signal file eventually returns.
C15_CrashReleasesSentinel ==
    /\ \A c \in Calls :
          (tpc[c] = "crashed") ~> ~IsFile(signalpath[c])
    /\ \A c, d \in Calls :
          (tpc[c] = "crashed" /\ SameFile(c, d) /\ pc[d] = "poll") ~> (pc[d] = "ret")

\* the thread of call c has run the Sampler (the body of get_study_sample)
Computed(c) == heap[c] # NoDf

\* C16: of two threads of one process that called get_study_sample with the
\* same (study, size, sid) at most one has run the Sampler, and no process's
\* memoization cache holds more than LruMaxsize entries.
C16_SingleFlight ==
    /\ \A c, d \in Calls :
          (/\ c # d /\ proc[c] = proc[d]
           /\ Computed(c) /\ Computed(d)
           /\ SampleKey(c) = SampleKey(d))
              => FALSE
    /\ \A p \in Procs : Len(memo[p]) <= LruMaxsize

\* C17 as stated: the signal file and the data file of one file name never
\* exist at the same time (the entry is absent, in progress without a data
\* file, or present without a signal file).
C17_ThreeStates ==
    \A f \in DataNames : ~(IsFile(f) /\ IsFile(SignalName(f)))

\* C17 amended: the entry is absent (no signal file, no data file), in
\* progress (the signal file exists, with or without a data file) or present
\* (no signal file, the data file exists and is complete): a data file
\* without a signal file is complete.
C17_FileWithoutSignalComplete ==
    \A f \in DataNames :
        (IsFile(f) /\ ~IsFile(SignalName(f))) => cache[f].complete

\* one entry is in progress with an incomplete data file beside its signal
\* file while another entry is present
C17_Witness ==
    \E c, d \in Calls :
        /\ c # d /\ Made(c) /\ Made(d) /\ pathname[c] # pathname[d]
        /\ tpc[c] = "savrow"
        /\ IsFile(pathname[c]) /\ ~cache[pathname[c]].complete
        /\ IsFile(signalpath[c])
        /\ EntryPresent(pathname[d])

C19_PresentFilesStay ==
    [][\A f \in DataNames :
          (cache[f] # NoFile /\ cache[f].complete) => cache'[f] = cache[f]
      ]_vars

\* two entries are present, each written by the thread of its call: the one
\* written first has stayed through the steps that wrote the other
C19_Witness ==
    \E c, d \in Calls :
        /\ c # d /\ Made(c) /\ Made(d) /\ pathname[c] # pathname[d]
        /\ tpc[c] = "done" /\ tpc[d] = "done"
        /\ Written(c) /\ Written(d)
        /\ EntryPresent(pathname[c]) /\ EntryPresent(pathname[d])

\* C20: a call whose format is not one of FORMATS does not return a filename,
\* starts no create_data_file thread and does not run the Sampler.
C20_UndeclaredFormatRejected ==
    \A c \in Calls :
        (Made(c) /\ req[c].format \notin FORMATS) =>
            /\ pc[c] # "ret"
            /\ ~Created(c)
            /\ ~Computed(c)

\* ------------------------------------------------------- the sampler model

\* Two independent executions of get_study_sample's body (each in a thread or
\* process of its own, with a generator of its own), one observation a step.

Sizes == 0..MaxSize
Seeds == 0..MaxSeed

InitSampler ==
    /\ cache = EmptyCache
    /\ IdleCalls
    /\ run \in [Runs -> {[NoRun EXCEPT !.pc = "seed", !.study = st,
                                       !.size = sz, !.sid = sd] :
                            st \in StudyKeys, sz \in Sizes, sd \in Seeds}]
    /\ width = NoWidth
    /\ naming = NoNaming

\* rng = np.random.default_rng(sid)
SeedRng(r) ==
    /\ run[r].pc = "seed"
    /\ \E s \in DefaultRngStates(run[r].sid) :
          run' = [run EXCEPT ![r].rng = s, ![r].k = 1, ![r].pc = "loop"]
    /\ UNCHANGED <<cacheVars, width, naming>>

\* one element of [self.get_observation(rng, index) for index in range(size)]
Observe(r) ==
    /\ run[r].pc = "loop"
    /\ run[r].k <= RangeLen(run[r].size)
    /\ LET index == RangeAt(run[r].size, run[r].k)
           o == GetObservation(run[r].study, run[r].rng, index)
       IN  run' = [run EXCEPT ![r].rng = o.rng,
                              ![r].k = @ + 1,
                              ![r].indices = Append(@, index),
                              ![r].sample = Append(@, o.row)]
    /\ UNCHANGED <<cacheVars, width, naming>>

\* the list is complete: DataFrame.from_records(...).astype(...), return df
Frame(r) ==
    /\ run[r].pc = "loop"
    /\ run[r].k > RangeLen(run[r].size)
    /\ run' = [run EXCEPT ![r].df = DataFrame(run[r].study, run[r].sample),
                          ![r].pc = "done"]
    /\ UNCHANGED <<cacheVars, width, naming>>

NextSampler == \E r \in Runs : SeedRng(r) \/ Observe(r) \/ Frame(r)

SpecSampler == InitSampler /\ [][NextSampler]_vars

\* ---------------------------------------------- the sampler model: claims

C10_PrefixDeterministic ==
    /\ \A r \in Runs :
          run[r].pc = "done" =>
              /\ Len(run[r].df.rows) = run[r].size
              /\ run[r].indices = [i \in 1..run[r].size |-> i - 1]
    /\ \A r1, r2 \in Runs :
          (/\ run[r1].pc = "done" /\ run[r2].pc = "done"
           /\ run[r1].study = run[r2].study
           /\ run[r1].sid = run[r2].sid
           /\ run[r1].size < run[r2].size)
              => SubSeq(run[r2].df.rows, 1, run[r1].size) = run[r1].df.rows

\* two finished runs of a two-group study with the same seed, one of two
\* rows and one of three
C10_Witness ==
    /\ run[1].pc = "done" /\ run[2].pc = "done"
    /\ run[1].study = TwoSampleMedium /\ run[2].study = TwoSampleMedium
    /\ run[1].sid = run[2].sid
    /\ run[1].size = 2 /\ run[2].size = 3
    /\ Len(run[2].df.rows) = 3

\* the generator after k draws, started in state s
RECURSIVE RngAfter(_, _)
RngAfter(s, k) == IF k = 0 THEN s ELSE RngStep(RngAfter(s, k - 1))

\* C11: in a run of a two-group study, the row at zero-based index i has
\* group A when i is even and B when i is odd; after i observations the
\* generator has made exactly i draws, and x of row i is the normal draw
\* number i + 1, plus d for group B only.
C11_GroupsAlternate ==
    \A r \in Runs :
        run[r].study \in {TwoSampleNull, TwoSampleMedium} /\ run[r].pc \in {"loop", "done"} =>
            /\ \E s \in DefaultRngStates(run[r].sid) :
                  /\ run[r].rng = RngAfter(s, Len(run[r].sample))
                  /\ \A k \in 1..Len(run[r].sample) :
                        run[r].sample[k][2] =
                            2 * RngNormal(RngAfter(s, k - 1)).val
                              + (IF (k - 1) % 2 = 1 THEN TwoSampleD(run[r].study) ELSE 0)
            /\ \A k \in 1..Len(run[r].sample) :
                  run[r].sample[k][1] = IF (k - 1) % 2 = 0 THEN "A" ELSE "B"
            /\ run[r].pc = "done" =>
                  \A k \in 1..Len(run[r].df.rows) :
                      run[r].df.rows[k][1] = IF (k - 1) % 2 = 0 THEN "A" ELSE "B"

\* a finished run of the two-group study with d = 0.5 and MaxSize rows, of
\* which the second (group B) has an x that is odd in half units: d was added
C11_Witness ==
    \E r \in Runs :
        /\ run[r].pc = "done" /\ run[r].study = TwoSampleMedium
        /\ run[r].size = MaxSize /\ Len(run[r].df.rows) = MaxSize
        /\ run[r].df.rows[2][1] = "B" /\ run[r].df.rows[2][2] % 2 = 1
        /\ run[r].df.rows[1][1] = "A" /\ run[r].df.rows[1][2] % 2 = 0

\* --------------------------------------------- the display format model

\* df_to_sav comes to an ordered categorical column with n declared
\* categories, n in 1..MaxCategories, and computes its display format.

InitWidth ==
    /\ cache = EmptyCache
    /\ IdleCalls
    /\ run = [r \in Runs |-> NoRun]
    /\ width \in {[pc |-> "labels", labels |-> [i \in 1..n |-> "label"], format |-> << >>] :
                    n \in 1..MaxCategories}
    /\ naming = NoNaming

\* formats[varName] = f'F{ceil(log10(len(labels)))}.0'
FormatColumn ==
    /\ width.pc = "labels"
    /\ width' = [width EXCEPT !.format = SavFormat(width.labels), !.pc = "done"]
    /\ UNCHANGED <<cacheVars, run, naming>>

NextWidth == FormatColumn

SpecWidth == InitWidth /\ [][NextWidth]_vars

\* 10 to the power w
RECURSIVE Pow10(_)
Pow10(w) == IF w = 0 THEN 1 ELSE 10 * Pow10(w - 1)

\* the width w is the `expected` one for n categories: 1 for n = 10, 2 for
\* n in 11..100, at least 1, and the largest code n - 1 has at most w digits
WidthFits(n, w) ==
    /\ n = 10 => w = 1
    /\ n \in 11..100 => w = 2
    /\ w >= 1
    /\ n - 1 < Pow10(w)

\* C13 as stated: for every number n >= 1 of declared categories the display
\* format is F<w>.0 with w = 1 for n = 10, w = 2 for n in 11..100, w >= 1 and
\* w digits enough for the largest code n - 1.
C13_WidthAnyCount ==
    width.pc = "done" =>
        /\ width.format[1] = "F" /\ width.format[3] = ".0"
        /\ WidthFits(Len(width.labels), width.format[2])

\* C13 amended: the same for every number n >= 2 of declared categories
\* (for n = 1 the width is ceil(log10(1)) = 0).
C13_WidthTwoOrMore ==
    /\ (width.pc = "done" /\ Len(width.labels) >= 2) =>
          /\ width.format[1] = "F" /\ width.format[3] = ".0"
          /\ WidthFits(Len(width.labels), width.format[2])
    /\ (width.pc = "done" /\ Len(width.labels) = 1) => width.format[2] = 0

\* the format of a column with 100 declared categories has been computed
C13_Witness ==
    width.pc = "done" /\ Len(width.labels) = 100 /\ width.format = <<"F", 2, ".0">>

\* --------------------------------------------------- the file name model

\* Two get_data_file calls with arguments as a URL can give them: size and
\* sid are strings that int() accepts, among them strings with an underscore
\* between digits and with a leading zero.

NameStudies == {Levels, TwoSampleNull}
NameSizes == {<<"1">>, <<"1", "0">>, <<"0", "1">>, <<"1", "_", "0">>}
NameSids == {<<"5">>, <<"0", "5">>, <<"0", "_", "5">>}
NameFormats == {Csv, Sav}

NameRequests ==
    {Rq(st, sz, fm, sd) :
        st \in NameStudies, sz \in NameSizes, fm \in NameFormats, sd \in NameSids}

InitNaming ==
    /\ cache = EmptyCache
    /\ IdleCalls
    /\ run = [r \in Runs |-> NoRun]
    /\ width = NoWidth
    /\ naming \in {[NoNaming EXCEPT !.pc = <<"filename", "filename">>,
                                     !.req = <<r1, r2>>] :
                     r1 \in NameRequests, r2 \in NameRequests}

\* filename = f'tykhe_{study}_{size}_{sid}.{format}';
\* signalpath = path.join(cache, 'creating-' + filename);
\* pathname = path.join(cache, filename)
NameFiles(i) ==
    /\ naming.pc[i] = "filename"
    /\ LET r == naming.req[i]
       IN  naming' = [naming EXCEPT
                         !.filename[i] = Filename(r.study, r.size, r.format, r.sid),
                         !.signalpath[i] =
                             SignalName(Filename(r.study, r.size, r.format, r.sid)),
                         !.pathname[i] = Filename(r.study, r.size, r.format, r.sid),
                         !.pc[i] = "args"]
    /\ UNCHANGED <<cacheVars, run, width>>

\* args = (study, int(size), format, int(sid), pathname, signalpath)
NameArgs(i) ==
    /\ naming.pc[i] = "args"
    /\ ParseInt(naming.req[i].size).ok /\ ParseInt(naming.req[i].sid).ok
    /\ naming' = [naming EXCEPT
                      !.args[i] = <<naming.req[i].study,
                                    ParseInt(naming.req[i].size).val,
                                    naming.req[i].format,
                                    ParseInt(naming.req[i].sid).val>>,
                      !.pc[i] = "done"]
    /\ UNCHANGED <<cacheVars, run, width>>

NextNaming == \E i \in {1, 2} : NameFiles(i) \/ NameArgs(i)

SpecNaming == InitNaming /\ [][NextNaming]_vars

\* C21: two requests get the same data file and the same signal file if and
\* only if study, int(size), format and int(sid) are the same for both.
C21_FilenameIdentifiesSample ==
    (naming.pc[1] = "done" /\ naming.pc[2] = "done") =>
        ((naming.pathname[1] = naming.pathname[2]
            /\ naming.signalpath[1] = naming.signalpath[2])
         <=> naming.args[1] = naming.args[2])

====
